---- MODULE Spec2Model ----
(***************************************************************************)
(* A model of insightful.Insight: a context manager that replaces the      *)
(* __getattribute__, __setattr__ and __delattr__ handlers of a target      *)
(* class for the duration of a `with` block and prints every interaction.  *)
(*                                                                         *)
(* The target class has one data attribute, "value", and one method,       *)
(* "get", whose body is `return self.value` (the shape of example.py's     *)
(* Test class).  A host program constructs one Insight, enters and leaves  *)
(* its scope and executes statements on two instances of the target class. *)
(***************************************************************************)
EXTENDS Integers, Sequences, FiniteSets, TLC

\* ------------------------------------------------------------------ bounds
MaxStale == 1       \* descriptions left on the pending stack with which the
                    \* program still starts another statement
MaxEnters == 2      \* how often the host program enters the session's scope

\* ------------------------------------------------------------ the universe
Instances == {"a", "b"}          \* two instances of the target class
Values == {5}                    \* values the program writes to the data attribute
None == "None"
NoExc == "None"

NoneV == [kind |-> "None"]
Val(v) == [kind |-> "val", v |-> v]
\* the bound method `i.get`, as object.__getattribute__ returns it
Method(i) == [kind |-> "method", self |-> i]
\* the closure call_decorator returns for the bound method `i.get`
Wrapper(i) == [kind |-> "wrapper", self |-> i]

Return(v) == [kind |-> "return", value |-> v]
Raise(e) == [kind |-> "raise", exc |-> e]

\* the handler every class inherits from object; wrapper k (k > 0) is the
\* closure the k-th __enter__ created
ObjectHandler == 0
\* self.original_getattribute = None
NoHandler == -1

VARIABLES
    \* the target class
    target_getattribute, target_setattr, target_delattr,
    \* the instances' __dict__
    dict,
    \* the Insight object
    instance, function_calls, attribute_access, attribute_assignment,
    attribute_deletion, show_method_access,
    original_getattribute, original_setattr, original_delattr,
    stack, done, guarded,
    \* what the statement being executed has printed so far (each line
    \* without the prefix)
    out,
    \* the host program
    phase,      \* "inactive", "inside" the with block, "after" it
    entered,    \* number of __enter__ calls so far
    held,       \* the method reference the program holds (`will_work`)
    captured_inside,    \* whether it was obtained inside the with block
    base,       \* depth of the pending stack when the last statement began
    ret,        \* the value the statement just executed produced
    exc,        \* exception in flight in the host program
    frame,      \* the method call in progress
    left,       \* exception with which the block was left, while the caller
                \* of the with statement has not handled what reached it
    scenario,   \* progress of the block through `a.value = 5; a.get()`
    \* a program with two classes and two sessions on classes
    class_dict, \* each class's own entry for each handler, or Inherited
    subclass,   \* whether U is declared `class U(T)`
    sessions,   \* the Insight objects
    scopes,     \* the sessions whose with block is open, innermost last
    seen        \* the last statement on an instance and the sessions that
                \* printed a line for it, in the order of the lines

vars == <<target_getattribute, target_setattr, target_delattr, dict,
          instance, function_calls, attribute_access, attribute_assignment,
          attribute_deletion, show_method_access,
          original_getattribute, original_setattr, original_delattr,
          stack, done, guarded, out, phase, entered, held, captured_inside,
          base, ret, exc, frame, left, scenario,
          class_dict, subclass, sessions, scopes, seen>>

config == <<instance, function_calls, attribute_access, attribute_assignment,
            attribute_deletion, show_method_access>>
originals == <<original_getattribute, original_setattr, original_delattr>>
handlers == <<target_getattribute, target_setattr, target_delattr>>

NoFrame == [kind |-> "none"]
others == <<class_dict, subclass, sessions, scopes, seen>>

\* ------------------------------------------------------ output and stack
Pop(s) == SubSeq(s, 1, Len(s) - 1)

\* "{}.{}", "{}.{} = {}", "del {}.{}" and the call signature; repr is the
\* instance's name
GetDesc(i, n) == [kind |-> "get", repr |-> i, name |-> n]
SetDesc(i, n, v) == [kind |-> "set", repr |-> i, name |-> n, value |-> v]
DelDesc(i, n) == [kind |-> "del", repr |-> i, name |-> n]
\* inspect.getcallargs of a bound method binds `self` as well, so the
\* signature of `i.get()` reads "(self=<repr>)": args is the list of
\* name=value pairs formatargvalues prints
CallDesc(i, n) ==
    [kind |-> "call", repr |-> i, name |-> n, args |-> << <<"self", i>> >>]

\* self._print("{} -> {}".format(description, value))
ArrowLine(d, v) == [kind |-> "arrow", desc |-> d, value |-> v]
\* self._print(description)
PlainLine(d) == [kind |-> "plain", desc |-> d]
\* self._print("{}: {}".format(exc_type.__name__, exc_val))
ExcLine(e) == [kind |-> "exc", type |-> e]
\* self._print("  during: {}".format(frame))
DuringLine(d) == [kind |-> "during", desc |-> d]

RECURSIVE DuringLines(_)
DuringLines(s) ==
    IF s = <<>> THEN <<>> ELSE <<DuringLine(Head(s))>> \o DuringLines(Tail(s))

\* ------------------------------------------------- the object's handlers
\* Each returns [dict, res]: the instances' __dict__ afterwards and the
\* outcome, Return(value) or Raise(exception).
object_getattribute(d, i, n) ==
    IF n = "get" THEN [dict |-> d, res |-> Return(Method(i))]
    ELSE IF n \in DOMAIN d[i] THEN [dict |-> d, res |-> Return(d[i][n])]
    ELSE [dict |-> d, res |-> Raise("AttributeError")]

object_setattr(d, i, n, v) ==
    [dict |-> [d EXCEPT ![i] = [m \in (DOMAIN d[i]) \cup {n} |->
                                   IF m = n THEN v ELSE d[i][m]]],
     res |-> Return(NoneV)]

object_delattr(d, i, n) ==
    IF n \in DOMAIN d[i]
    THEN [dict |-> [d EXCEPT ![i] = [m \in (DOMAIN d[i]) \ {n} |-> d[i][m]]],
          res |-> Return(NoneV)]
    ELSE [dict |-> d, res |-> Raise("AttributeError")]

\* ------------------------------------------------------------ the session
\* Insight._fast_track
fast_track(instance_self) ==
    guarded \/ (instance # None /\ instance # instance_self)

\* The handlers below return [dict, stack, guarded, out, res]: the state the
\* handler leaves and its outcome.  _recursion_guard sets the flag on entry
\* and clears it when its block ends without an exception.
Outcome(d, s, g, o, r) ==
    [dict |-> d, stack |-> s, guarded |-> g, out |-> o, res |-> r]

\* `if self.attribute_access: self._print(...)`: the output afterwards
log_access_always(description, value) ==
    Append(out, ArrowLine(description, value))

log_access(description, value) ==
    IF attribute_access
    THEN Append(out, ArrowLine(description, value))
    ELSE out

\* the closure installed as target.__getattribute__
getattribute_wrapper(instance_self, name) ==
    IF fast_track(instance_self)
    THEN LET o == object_getattribute(dict, instance_self, name)
         IN Outcome(o.dict, stack, guarded, out, o.res)
    ELSE LET description == GetDesc(instance_self, name)
             pushed == Append(stack, description)
             o == object_getattribute(dict, instance_self, name)
         IN IF o.res.kind = "raise"
            THEN Outcome(o.dict, pushed, FALSE, out, o.res)
            ELSE LET value == o.res.value
                 IN IF value.kind = "method" /\ value.self = instance_self
                    THEN Outcome(o.dict, Pop(pushed), FALSE,
                                 IF show_method_access
                                 THEN Append(out, ArrowLine(description, value))
                                 ELSE out,
                                 IF function_calls
                                 THEN Return(Wrapper(instance_self))
                                 ELSE Return(value))
                    ELSE Outcome(o.dict, Pop(pushed), FALSE,
                                 log_access(description, value),
                                 Return(value))

\* the closure installed as target.__setattr__; its fast path calls
\* self.original_setattr(instance, name), one argument short
setattr_wrapper(instance_self, name, value) ==
    IF fast_track(instance_self)
    THEN Outcome(dict, stack, guarded, out, Raise("TypeError"))
    ELSE LET description == SetDesc(instance_self, name, value)
             pushed == Append(stack, description)
             o == object_setattr(dict, instance_self, name, value)
         IN IF o.res.kind = "raise"
            THEN Outcome(o.dict, pushed, FALSE, out, o.res)
            ELSE Outcome(o.dict, Pop(pushed), FALSE,
                         Append(out, PlainLine(description)), Return(NoneV))

\* the closure installed as target.__delattr__
delattr_wrapper(instance_self, name) ==
    IF fast_track(instance_self)
    THEN LET o == object_delattr(dict, instance_self, name)
         IN Outcome(o.dict, stack, guarded, out, o.res)
    ELSE LET description == DelDesc(instance_self, name)
             pushed == Append(stack, description)
             o == object_delattr(dict, instance_self, name)
         IN IF o.res.kind = "raise"
            THEN Outcome(o.dict, pushed, FALSE, out, o.res)
            ELSE Outcome(o.dict, Pop(pushed), FALSE,
                         Append(out, PlainLine(description)), Return(NoneV))

\* `i.n`, `i.n = v` and `del i.n` look the handler up on the class
LoadAttr(i, n) ==
    IF target_getattribute = ObjectHandler
    THEN LET o == object_getattribute(dict, i, n)
         IN Outcome(o.dict, stack, guarded, out, o.res)
    ELSE getattribute_wrapper(i, n)

StoreAttr(i, n, v) ==
    IF target_setattr = ObjectHandler
    THEN LET o == object_setattr(dict, i, n, v)
         IN Outcome(o.dict, stack, guarded, out, o.res)
    ELSE setattr_wrapper(i, n, v)

DeleteAttr(i, n) ==
    IF target_delattr = ObjectHandler
    THEN LET o == object_delattr(dict, i, n)
         IN Outcome(o.dict, stack, guarded, out, o.res)
    ELSE delattr_wrapper(i, n)

\* Calling a method reference with arguments that fit its signature ("ok")
\* or do not ("bad").  The outcome is Raise(e) or Invoke(logged, desc):
\* control passes to the function body.
Invoke(i, logged, desc) ==
    [kind |-> "invoke", self |-> i, logged |-> logged, desc |-> desc]

\* function(*args, **kwargs) for the bound method i.get
function(i, args) ==
    IF args = "bad" THEN Raise("TypeError") ELSE Invoke(i, FALSE, NoneV)

\* a wrapper that puts no description on the pending stack
wrapper_unpushed(i, args) ==
    IF done
    THEN [stack |-> stack, guarded |-> guarded, res |-> function(i, args)]
    ELSE IF args = "bad"
         THEN [stack |-> stack, guarded |-> TRUE, res |-> Raise("TypeError")]
         ELSE [stack |-> stack, guarded |-> FALSE,
               res |-> Invoke(i, TRUE, CallDesc(i, "get"))]

\* call_decorator's wrapper, up to and including `value = function(...)`;
\* returns [stack, guarded, res]
wrapper(i, args) ==
    IF done
    THEN [stack |-> stack, guarded |-> guarded, res |-> function(i, args)]
    ELSE IF args = "bad"
         \* inspect.getcallargs raises inside the guarded block
         THEN [stack |-> stack, guarded |-> TRUE, res |-> Raise("TypeError")]
         ELSE LET description == CallDesc(i, "get")
              IN [stack |-> Append(stack, description), guarded |-> FALSE,
                  res |-> Invoke(i, TRUE, description)]

wrapper_return_silent(description, value) ==
    [stack |-> Pop(stack), guarded |-> FALSE, out |-> out]

\* a wrapper whose line is put in front of the lines printed during the call
wrapper_return_first(description, value) ==
    [stack |-> Pop(stack), guarded |-> FALSE,
     out |-> <<ArrowLine(description, value)>> \o out]

\* call_decorator's wrapper after `value = function(...)` returned;
\* returns [stack, guarded, out]
wrapper_return(description, value) ==
    [stack |-> Pop(stack), guarded |-> FALSE,
     out |-> Append(out, ArrowLine(description, value))]

\* Insight.__exit__(exc_type, exc_val, exc_tb), exc_val being NoExc when the
\* block ended normally.  next() on the iterator of an empty stack raises
\* StopIteration before anything is printed or restored.
exit(exc_val) ==
    IF exc_val # NoExc /\ stack = <<>>
    THEN [raised |-> "StopIteration", out |-> out, done |-> done,
          getattribute |-> target_getattribute,
          setattr |-> target_setattr,
          delattr |-> target_delattr]
    ELSE [raised |-> NoExc,
          out |-> IF exc_val # NoExc
                  THEN Append(out, ExcLine(exc_val)) \o DuringLines(stack)
                  ELSE out,
          done |-> TRUE,
          getattribute |-> original_getattribute,
          setattr |-> original_setattr,
          delattr |-> original_delattr]

\* --------------------------------------------- classes and their sessions
\* Two classes, T and U (declared `class U(T)` or on its own), and two
\* sessions, each on one of the classes.  Wrapper k is the closure session
\* k's __enter__ created; a session is entered once.  The instances keep
\* their attribute and their repr reads none, so every statement completes
\* and the sessions' pending stacks stay empty.
Classes == {"T", "U"}
SessionIds == {1, 2}
Slots == {"__getattribute__", "__setattr__", "__delattr__"}
\* the class's __dict__ has no entry: the lookup goes on along the MRO
Inherited == -2

\* `cls.__getattribute__` and the like: the class's own entry, the base
\* class's or object's
Resolve(c, slot) ==
    IF class_dict[c][slot] # Inherited THEN class_dict[c][slot]
    ELSE IF c = "U" /\ subclass /\ class_dict["T"][slot] # Inherited
         THEN class_dict["T"][slot]
         ELSE ObjectHandler

\* the conditions under which __enter__ installs each wrapper
Installs(s, slot) ==
    IF slot = "__getattribute__"
    THEN sessions[s].function_calls \/ sessions[s].attribute_access
    ELSE IF slot = "__setattr__" THEN sessions[s].attribute_assignment
    ELSE sessions[s].attribute_deletion

NewSession(c, fc, aa, as, ad) ==
    [target |-> c, function_calls |-> fc, attribute_access |-> aa,
     attribute_assignment |-> as, attribute_deletion |-> ad,
     original |-> [slot \in Slots |-> NoHandler],
     stack |-> <<>>, done |-> FALSE, state |-> "new", depth |-> 0]

\* an __exit__ that puts object's handlers on the class
restore_to_object(s) == [slot \in Slots |-> ObjectHandler]

\* the class's entries after session s's __exit__ restored them

restore(s) == sessions[s].original

\* session s's __exit__: what it raises, the finished flag and the entries
\* of the target class afterwards
session_exit(s, exc_val) ==
    IF exc_val # NoExc /\ sessions[s].stack = <<>>
    THEN [raised |-> "StopIteration", done |-> sessions[s].done,
          entries |-> class_dict[sessions[s].target]]
    ELSE [raised |-> NoExc, done |-> TRUE, entries |-> restore(s)]

SlotOf(op) == IF op = "get" THEN "__getattribute__" ELSE "__setattr__"

\* The sessions that print a line when handler h runs for a read ("get") or
\* a write ("set") of the data attribute, in the order of their lines: a
\* wrapper calls its session's original handler first and prints afterwards.
RECURSIVE Logs(_, _)
Logs(h, op) ==
    IF h \in SessionIds
    THEN Logs(sessions[h].original[SlotOf(op)], op)
         \o (IF op = "set" \/ sessions[h].attribute_access
             THEN <<h>> ELSE <<>>)
    ELSE <<>>

NoUse == [class |-> "none", op |-> "none", by |-> <<>>]

\* the program has no second class and no other session
NoOthers ==
    /\ class_dict = [c \in Classes |-> [slot \in Slots |-> Inherited]]
    /\ subclass = FALSE
    /\ sessions = [s \in SessionIds |->
                      NewSession("T", TRUE, TRUE, TRUE, TRUE)]
    /\ scopes = <<>>
    /\ seen = NoUse

\* ------------------------------------------------------- the host program
\* the lines a handler added to the output
Printed(r) == SubSeq(r.out, Len(out) + 1, Len(r.out))

\* the program is between two statements
Idle == frame = NoFrame /\ exc = NoExc /\ Len(stack) <= MaxStale

\* the statement's handler ran: its effects and its value or exception
Settle(r) ==
    /\ dict' = r.dict
    /\ stack' = r.stack
    /\ guarded' = r.guarded
    /\ out' = Printed(r)
    /\ IF r.res.kind = "raise"
       THEN exc' = r.res.exc /\ ret' = NoneV
       ELSE exc' = NoExc /\ ret' = r.res.value

\* Insight(target, ...): target is the class or the instance "a"
Init ==
    /\ target_getattribute = ObjectHandler
    /\ target_setattr = ObjectHandler
    /\ target_delattr = ObjectHandler
    /\ dict = [i \in Instances |-> [value |-> Val(0)]]
    /\ instance \in {None, "a"}
    /\ function_calls \in BOOLEAN
    /\ attribute_access \in BOOLEAN
    /\ attribute_assignment \in BOOLEAN
    /\ attribute_deletion \in BOOLEAN
    /\ show_method_access \in BOOLEAN
    /\ original_getattribute = NoHandler
    /\ original_setattr = NoHandler
    /\ original_delattr = NoHandler
    /\ stack = <<>>
    /\ done = FALSE
    /\ guarded = FALSE
    /\ out = <<>>
    /\ phase = "inactive"
    /\ entered = 0
    /\ held = NoneV
    /\ captured_inside = FALSE
    /\ base = 0
    /\ ret = NoneV
    /\ exc = NoExc
    /\ frame = NoFrame
    /\ left = NoExc
    /\ scenario = "off"
    /\ NoOthers

\* Insight.__enter__.  The program enters only while the class carries the
\* object's handlers: a wrapper saved as its own original would call itself
\* without end.
Enter ==
    /\ phase \in {"inactive", "after"}
    /\ Idle
    /\ entered < MaxEnters
    /\ handlers = <<ObjectHandler, ObjectHandler, ObjectHandler>>
    /\ original_getattribute' = target_getattribute
    /\ original_setattr' = target_setattr
    /\ original_delattr' = target_delattr
    /\ target_getattribute' = IF function_calls \/ attribute_access
                              THEN entered + 1 ELSE target_getattribute
    /\ target_setattr' = IF attribute_assignment
                         THEN entered + 1 ELSE target_setattr
    /\ target_delattr' = IF attribute_deletion
                         THEN entered + 1 ELSE target_delattr
    /\ entered' = entered + 1
    /\ phase' = "inside"
    /\ scenario' = "start"
    /\ out' = <<>>
    /\ base' = Len(stack)
    /\ ret' = NoneV
    /\ UNCHANGED <<dict, config, others, stack, done, guarded, held, captured_inside,
                   exc, frame, left>>

\* `i.n`
ReadStmt(i, n) ==
    /\ Idle
    /\ LET r == LoadAttr(i, n)
       IN /\ Settle(r)
          /\ IF r.res.kind = "return"
                /\ r.res.value.kind \in {"method", "wrapper"}
             THEN /\ held' = r.res.value
                  /\ captured_inside' = (phase = "inside")
             ELSE UNCHANGED <<held, captured_inside>>
          /\ scenario' = IF scenario = "written" /\ i = "a" /\ n = "get"
                            /\ r.res.kind = "return"
                         THEN "looked_up" ELSE "off"
    /\ base' = Len(stack)
    /\ UNCHANGED <<handlers, config, others, originals, done, phase, entered, frame,
                   left>>

\* `i.value = v`
WriteStmt(i, v) ==
    /\ Idle
    /\ LET r == StoreAttr(i, "value", Val(v))
       IN /\ Settle(r)
          /\ scenario' = IF scenario = "start" /\ i = "a" /\ v = 5
                            /\ r.res.kind = "return"
                         THEN "written" ELSE "off"
    /\ base' = Len(stack)
    /\ UNCHANGED <<handlers, config, others, originals, done, phase, entered, held,
                   captured_inside, frame, left>>

\* `del i.value`
DeleteStmt(i) ==
    /\ Idle
    /\ LET r == DeleteAttr(i, "value")
       IN Settle(r)
    /\ scenario' = "off"
    /\ base' = Len(stack)
    /\ UNCHANGED <<handlers, config, others, originals, done, phase, entered, held,
                   captured_inside, frame, left>>

\* `held(...)`: the held reference is called; a call that gets as far as the
\* function leaves the body and the return to later steps
CallStmt(args) ==
    /\ Idle
    /\ held.kind \in {"method", "wrapper"}
    /\ LET c == IF held.kind = "wrapper"
                THEN wrapper(held.self, args)
                ELSE [stack |-> stack, guarded |-> guarded,
                      res |-> function(held.self, args)]
       IN /\ stack' = c.stack
          /\ guarded' = c.guarded
          /\ IF c.res.kind = "raise"
             THEN /\ exc' = c.res.exc
                  /\ frame' = NoFrame
                  /\ scenario' = "off"
             ELSE /\ exc' = NoExc
                  /\ frame' = [kind |-> "call", self |-> c.res.self,
                               logged |-> c.res.logged, desc |-> c.res.desc,
                               pc |-> "body", value |-> NoneV]
                  /\ scenario' = IF scenario = "looked_up"
                                 THEN "calling" ELSE "off"
    /\ ret' = NoneV
    /\ out' = <<>>
    /\ base' = Len(stack)
    /\ UNCHANGED <<handlers, dict, config, others, originals, done, phase,
                   entered, held, captured_inside, left>>

\* the body of get: `return self.value`
FunctionBody ==
    /\ frame.kind = "call"
    /\ frame.pc = "body"
    /\ LET r == LoadAttr(frame.self, "value")
       IN /\ dict' = r.dict
          /\ stack' = r.stack
          /\ guarded' = r.guarded
          /\ out' = r.out
          /\ IF r.res.kind = "raise"
             THEN /\ exc' = r.res.exc
                  /\ frame' = NoFrame
                  /\ scenario' = "off"
             ELSE /\ exc' = NoExc
                  /\ frame' = [frame EXCEPT !.pc = "return",
                                            !.value = r.res.value]
                  /\ scenario' = scenario
    /\ UNCHANGED <<handlers, config, others, originals, done, phase, entered, held,
                   captured_inside, base, ret, left>>

\* the function returned: the wrapper's last block, or nothing for a call
\* that went to the function directly
CallReturn ==
    /\ frame.kind = "call"
    /\ frame.pc = "return"
    /\ IF frame.logged
       THEN LET w == wrapper_return(frame.desc, frame.value)
            IN stack' = w.stack /\ guarded' = w.guarded /\ out' = w.out
       ELSE UNCHANGED <<stack, guarded, out>>
    /\ ret' = frame.value
    /\ frame' = NoFrame
    /\ scenario' = IF scenario = "calling" THEN "called" ELSE "off"
    /\ UNCHANGED <<handlers, dict, config, others, originals, done, phase, entered,
                   held, captured_inside, base, exc, left>>

\* a statement of the block that touches no instance raises
RaiseStmt ==
    /\ phase = "inside"
    /\ Idle
    /\ exc' = "ValueError"
    /\ scenario' = "off"
    /\ out' = <<>>
    /\ base' = Len(stack)
    /\ ret' = NoneV
    /\ UNCHANGED <<handlers, dict, config, others, originals, stack, done, guarded,
                   phase, entered, held, captured_inside, frame, left>>

\* try/except around the statement that raised, or around the with statement
CatchStmt ==
    /\ frame = NoFrame
    /\ exc # NoExc
    /\ exc' = NoExc
    /\ left' = NoExc
    /\ scenario' = "off"
    /\ out' = <<>>
    /\ ret' = NoneV
    /\ UNCHANGED <<handlers, dict, config, others, originals, stack, done, guarded,
                   phase, entered, held, captured_inside, base, frame>>

\* the with statement calls __exit__: at the end of the block (exc = NoExc)
\* or with the exception that leaves it.  __exit__ returns None, so the
\* exception goes on to the caller unless __exit__ itself raises one.
LeaveScope ==
    /\ phase = "inside"
    /\ frame = NoFrame
    /\ LET x == exit(exc)
       IN /\ out' = Printed(x)
          /\ done' = x.done
          /\ target_getattribute' = x.getattribute
          /\ target_setattr' = x.setattr
          /\ target_delattr' = x.delattr
          /\ exc' = IF x.raised # NoExc THEN x.raised ELSE exc
    /\ left' = exc
    /\ phase' = "after"
    /\ ret' = NoneV
    /\ scenario' = "off"
    /\ UNCHANGED <<dict, config, others, originals, stack, guarded, entered, held,
                   captured_inside, base, frame>>

Next ==
    \/ Enter
    \/ \E i \in Instances, n \in {"value", "get"} : ReadStmt(i, n)
    \/ \E i \in Instances, v \in Values : WriteStmt(i, v)
    \/ \E i \in Instances : DeleteStmt(i)
    \/ \E args \in {"ok", "bad"} : CallStmt(args)
    \/ FunctionBody
    \/ CallReturn
    \/ RaiseStmt
    \/ CatchStmt
    \/ LeaveScope

Spec == Init /\ [][Next]_vars

\* all toggles as __init__ defaults them
Defaults ==
    /\ function_calls
    /\ attribute_access
    /\ attribute_assignment
    /\ attribute_deletion
    /\ ~show_method_access

\* ------------------------------------ the program with two sessions
\* `with Insight(C1, ...): ... with Insight(C2, ...): ...` in any nesting and
\* order the with statement allows; the instance-level session of the first
\* part is not used.
TwoSessionsInit ==
    /\ target_getattribute = ObjectHandler
    /\ target_setattr = ObjectHandler
    /\ target_delattr = ObjectHandler
    /\ dict = [i \in Instances |-> [value |-> Val(0)]]
    /\ instance = None
    /\ function_calls = TRUE
    /\ attribute_access = TRUE
    /\ attribute_assignment = TRUE
    /\ attribute_deletion = TRUE
    /\ show_method_access = FALSE
    /\ original_getattribute = NoHandler
    /\ original_setattr = NoHandler
    /\ original_delattr = NoHandler
    /\ stack = <<>>
    /\ done = FALSE
    /\ guarded = FALSE
    /\ out = <<>>
    /\ phase = "inactive"
    /\ entered = 0
    /\ held = NoneV
    /\ captured_inside = FALSE
    /\ base = 0
    /\ ret = NoneV
    /\ exc = NoExc
    /\ frame = NoFrame
    /\ left = NoExc
    /\ scenario = "off"
    /\ class_dict = [c \in Classes |-> [slot \in Slots |-> Inherited]]
    /\ subclass \in BOOLEAN
    /\ \E c1, c2 \in Classes, fc1, aa1, as1, ad1, fc2, aa2, as2, ad2 \in BOOLEAN :
        sessions = [s \in SessionIds |->
                       IF s = 1 THEN NewSession(c1, fc1, aa1, as1, ad1)
                       ELSE NewSession(c2, fc2, aa2, as2, ad2)]
    /\ scopes = <<>>
    /\ seen = NoUse

\* session s's __enter__
EnterSession(s) ==
    /\ sessions[s].state = "new"
    /\ LET c == sessions[s].target
       IN /\ sessions' = [sessions EXCEPT
                 ![s].original = [slot \in Slots |-> Resolve(c, slot)],
                 ![s].state = "active",
                 ![s].depth = Len(scopes)]
          /\ class_dict' = [class_dict EXCEPT ![c] =
                 [slot \in Slots |->
                     IF Installs(s, slot) THEN s ELSE class_dict[c][slot]]]
    /\ scopes' = Append(scopes, s)
    /\ seen' = NoUse
    /\ UNCHANGED <<handlers, dict, config, originals, stack, done, guarded,
                   out, phase, entered, held, captured_inside, base, ret,
                   exc, frame, left, scenario, subclass>>

\* the innermost with block is left, normally or with an exception that the
\* program catches around the with statement: the session's __exit__
ExitSession(exc_val) ==
    /\ scopes # <<>>
    /\ LET s == scopes[Len(scopes)]
           x == session_exit(s, exc_val)
       IN /\ sessions' = [sessions EXCEPT ![s].done = x.done,
                                          ![s].state = "left"]
          /\ class_dict' = [class_dict EXCEPT
                               ![sessions[s].target] = x.entries]
    /\ scopes' = Pop(scopes)
    /\ seen' = NoUse
    /\ UNCHANGED <<handlers, dict, config, originals, stack, done, guarded,
                   out, phase, entered, held, captured_inside, base, ret,
                   exc, frame, left, scenario, subclass>>

\* `x.value` or `x.value = v` on an instance x of class c
UseStmt(c, op) ==
    /\ seen' = [class |-> c, op |-> op,
                by |-> Logs(Resolve(c, SlotOf(op)), op)]
    /\ UNCHANGED <<handlers, dict, config, originals, stack, done, guarded,
                   out, phase, entered, held, captured_inside, base, ret,
                   exc, frame, left, scenario, class_dict, subclass,
                   sessions, scopes>>

TwoSessionsNext ==
    \/ \E s \in SessionIds : EnterSession(s)
    \/ \E exc_val \in {NoExc, "ValueError"} : ExitSession(exc_val)
    \/ \E c \in Classes, op \in {"get", "set"} : UseStmt(c, op)

TwoSessions == TwoSessionsInit /\ [][TwoSessionsNext]_vars

\* ------------------------------------------------------------- the claims
ObjectHandlers == <<ObjectHandler, ObjectHandler, ObjectHandler>>

\* C1: after any exit from the scope, normal or with an exception (also one
\* raised by a statement that is no intercepted operation, so that nothing
\* is pending), the class's three handlers are the objects that were
\* installed before the scope was entered.
C1_HandlersRestoredAfterExit ==
    phase = "after" => handlers = ObjectHandlers

\* C2: the exception with which the block is left is the exception that
\* reaches the caller of the with statement.
C2_SameExceptionReachesCaller ==
    (phase = "after" /\ left # NoExc) => exc = left

\* C3: a wrapper obtained by a read inside the scope and called after the
\* scope was left pushes no description, prints nothing and hands back what
\* the function returned, the instance's value.
C3_CapturedWrapperSilentAfterScope ==
    (phase = "after" /\ held.kind = "wrapper" /\ captured_inside
        /\ frame.kind = "call")
    => /\ ~frame.logged
       /\ Len(stack) = base
       /\ out = <<>>
       /\ frame.pc = "return"
          => frame.value = dict[frame.self]["value"]

\* the kinds of line
Lines == {out[k] : k \in 1..Len(out)}
CallLine(l) == l.kind = "arrow" /\ l.desc.kind = "call"
AccessLine(l) ==
    l.kind = "arrow" /\ l.desc.kind = "get" /\ l.value.kind = "val"
AssignLine(l) == l.kind = "plain" /\ l.desc.kind = "set"
DeleteLine(l) == l.kind = "plain" /\ l.desc.kind = "del"

\* the program is between two statements, with no exception in flight
BetweenStatements == frame = NoFrame /\ exc = NoExc

\* what calling the held reference does, up to the call of the function
CallHeld(args) ==
    IF held.kind = "wrapper"
    THEN wrapper(held.self, args)
    ELSE [stack |-> stack, guarded |-> guarded,
          res |-> function(held.self, args)]

\* the handler did what the object's handler does and touched nothing of
\* the session
Untouched(r, o) ==
    r = Outcome(o.dict, stack, guarded, out, o.res)

\* C4: inside the scope, for every combination of the toggles: with a toggle
\* disabled no line of its category is printed, and a read, a write, a
\* deletion or a call of that category has the result and the effect the
\* object's own handler (the function itself) has.
C4_DisabledToggleSilentAndTransparent ==
    phase = "inside" =>
    /\ ~function_calls =>
        /\ \A l \in Lines : ~CallLine(l)
        /\ frame.kind = "call" => ~frame.logged
        /\ (BetweenStatements /\ held.kind \in {"method", "wrapper"}) =>
            \A args \in {"ok", "bad"} :
                CallHeld(args) = [stack |-> stack, guarded |-> guarded,
                                  res |-> function(held.self, args)]
    /\ ~attribute_access =>
        /\ \A l \in Lines : ~AccessLine(l)
        /\ BetweenStatements =>
            \A i \in Instances :
                LET r == LoadAttr(i, "value")
                    o == object_getattribute(dict, i, "value")
                IN r.res = o.res /\ r.dict = o.dict /\ r.out = out
    /\ ~attribute_assignment =>
        /\ \A l \in Lines : ~AssignLine(l)
        /\ BetweenStatements =>
            \A i \in Instances, v \in Values :
                Untouched(StoreAttr(i, "value", Val(v)),
                          object_setattr(dict, i, "value", Val(v)))
    /\ ~attribute_deletion =>
        /\ \A l \in Lines : ~DeleteLine(l)
        /\ BetweenStatements =>
            \A i \in Instances :
                Untouched(DeleteAttr(i, "value"),
                          object_delattr(dict, i, "value"))

\* a read went through the installed wrapper with attribute_access and
\* attribute_assignment disabled: it returned the 5 written before and
\* printed nothing
C4_Witness ==
    /\ phase = "inside"
    /\ ~attribute_access
    /\ ~attribute_assignment
    /\ target_getattribute # ObjectHandler
    /\ BetweenStatements
    /\ ret = Val(5)
    /\ out = <<>>

\* C5: with a class as target, inside the scope every read, write, deletion
\* and call on each instance is logged (for the enabled toggles); with one
\* instance as target, nothing done to another instance prints a line or
\* pushes a description.
C5_ClassLogsAllInstanceLogsOne ==
    phase = "inside" =>
    /\ (instance = None /\ BetweenStatements) =>
        \A i \in Instances :
            /\ (attribute_access /\ "value" \in DOMAIN dict[i]) =>
                Printed(LoadAttr(i, "value"))
                    = <<ArrowLine(GetDesc(i, "value"), dict[i]["value"])>>
            /\ attribute_assignment =>
                \A v \in Values :
                    Printed(StoreAttr(i, "value", Val(v)))
                        = <<PlainLine(SetDesc(i, "value", Val(v)))>>
            /\ (attribute_deletion /\ "value" \in DOMAIN dict[i]) =>
                Printed(DeleteAttr(i, "value"))
                    = <<PlainLine(DelDesc(i, "value"))>>
            /\ function_calls =>
                LoadAttr(i, "get").res = Return(Wrapper(i))
    /\ (instance = None /\ function_calls /\ held.kind = "wrapper"
            /\ frame.kind = "call") =>
        frame.logged
    /\ (instance # None /\ BetweenStatements) =>
        \A i \in Instances \ {instance} :
            /\ \A n \in {"value", "get"} :
                LET r == LoadAttr(i, n)
                IN r.out = out /\ r.stack = stack
            /\ \A v \in Values :
                LET r == StoreAttr(i, "value", Val(v))
                IN r.out = out /\ r.stack = stack
            /\ LET r == DeleteAttr(i, "value")
               IN r.out = out /\ r.stack = stack
    /\ (instance # None /\ frame.kind = "call" /\ frame.self # instance) =>
        ~frame.logged /\ out = <<>> /\ Len(stack) = base

\* C6: on the fast path a write, like a read and a deletion, does exactly
\* what the object's handler does: the value is stored and no exception is
\* raised that the plain write would not raise.
C6_FastPathIsTheOriginalHandler ==
    [][\A i \in Instances :
        fast_track(i) =>
        /\ \A v \in Values :
            (target_setattr # ObjectHandler /\ WriteStmt(i, v)) =>
                /\ exc' = NoExc
                /\ dict' = object_setattr(dict, i, "value", Val(v)).dict
        /\ \A n \in {"value", "get"} :
            (target_getattribute # ObjectHandler /\ ReadStmt(i, n)) =>
                LET o == object_getattribute(dict, i, n)
                IN IF o.res.kind = "raise"
                   THEN exc' = o.res.exc
                   ELSE exc' = NoExc /\ ret' = o.res.value
        /\ (target_delattr # ObjectHandler /\ DeleteStmt(i)) =>
                LET o == object_delattr(dict, i, "value")
                IN /\ dict' = o.dict
                   /\ exc' = IF o.res.kind = "raise" THEN o.res.exc ELSE NoExc
      ]_vars

\* the descriptions the statement that raised pushed and did not pop: the
\* intercepted operations in progress when the exception was raised
InProgress == SubSeq(stack, base + 1, Len(stack))

\* C7: when the block is left with an exception, __exit__ prints the
\* exception's type and message and then one "during:" line for each
\* operation that was in progress when it was raised, outermost first.
C7_ExitPrintsTheChainInProgress ==
    [][(phase = "inside" /\ exc # NoExc /\ LeaveScope) =>
        out' = <<ExcLine(exc)>> \o DuringLines(InProgress)]_vars

\* C8, as amended: in the first scope of a session with the default toggles
\* the block `a.value = 5; a.get()` prints three lines: the write prints
\* "<repr>.value = 5", the lookup of get prints nothing, and the call prints
\* "<repr>.value -> 5" for the read in get's body and then
\* "<repr>.get(self=<repr>) -> 5"; the call returns 5.
C8_ScenarioPrintsThreeLines ==
    (Defaults /\ entered = 1) =>
    /\ scenario = "written" =>
        out = <<PlainLine(SetDesc("a", "value", Val(5)))>>
    /\ scenario = "looked_up" =>
        out = <<>> /\ held = Wrapper("a")
    /\ scenario = "called" =>
        /\ out = <<ArrowLine(GetDesc("a", "value"), Val(5)),
                   ArrowLine(CallDesc("a", "get"), Val(5))>>
        /\ ret = Val(5)

\* the block has run to the end of `a.value = 5; a.get()`
C8_Witness ==
    Defaults /\ entered = 1 /\ phase = "inside" /\ scenario = "called"

\* C8, as stated: the block prints two lines, "<repr>.value = 5" and then
\* "<repr>.get() -> 5".
C8_ScenarioPrintsTwoLines ==
    (Defaults /\ entered = 1) =>
    /\ scenario = "written" =>
        out = <<PlainLine(SetDesc("a", "value", Val(5)))>>
    /\ scenario = "looked_up" => out = <<>>
    /\ scenario = "called" =>
        out = <<ArrowLine([kind |-> "call", repr |-> "a", name |-> "get",
                           args |-> <<>>], Val(5))>>

\* C9: with show_method_access enabled and function_calls disabled, whatever
\* the other toggles, reading a method of a matching instance prints the
\* access line and yields the method itself, and no call line is printed
\* when it is called.
C9_MethodAccessLoggedWithoutCalls ==
    [][(phase = "inside" /\ show_method_access /\ ~function_calls) =>
        /\ \A i \in Instances :
            ((instance = None \/ instance = i) /\ ReadStmt(i, "get")) =>
                /\ out' = <<ArrowLine(GetDesc(i, "get"), Method(i))>>
                /\ held' = Method(i)
                /\ ret' = Method(i)
        /\ \A k \in 1..Len(out') : ~CallLine(out'[k])
      ]_vars

\* C10: once the scope of a session has been left, nothing installs the
\* session's handlers on the class again, the session does not become
\* active again and the finished flag stays set.
C10_NoWayBackToActive ==
    [][phase = "after" =>
        /\ phase' = "after"
        /\ handlers' = handlers
        /\ done => done']_vars

\* C11: inside the scope the pending stack holds exactly the descriptions of
\* the intercepted operations in progress, in the order they were entered:
\* it is empty between two statements of the block, also after an exception
\* an intercepted operation raised was caught inside the block, and while a
\* method runs it holds the description of that call if the call is logged.
C11_StackHoldsOperationsInProgress ==
    phase = "inside" =>
    /\ BetweenStatements => stack = <<>>
    /\ frame.kind = "call" =>
        stack = IF frame.logged THEN <<frame.desc>> ELSE <<>>

\* C12: whenever code of the block or of the target runs inside the scope,
\* the guard flag is false, also after description-building raised (a
\* wrapped method called with arguments that do not fit its signature).
C12_GuardOnlyDuringBookkeeping ==
    phase = "inside" => ~guarded

\* the session is Active: its scope was entered and it has not finished
Active == phase = "inside" /\ ~done

\* the frame of a logged call of i.get that is about to run the body
LoggedCall(i) ==
    [kind |-> "call", self |-> i, logged |-> TRUE,
     desc |-> CallDesc(i, "get"), pc |-> "body", value |-> NoneV]

\* the steps of a logged call after the function was entered: the body runs
\* once; (a) when it returns, the description is popped, one line
\* "<description> -> <value>" is added and the value is handed back; (b)
\* when it raises, that exception propagates, no call line is printed and
\* the description stays on the stack
LoggedCallCompletes ==
    (frame.kind = "call" /\ frame.logged) =>
    /\ FunctionBody =>
        LET o == object_getattribute(dict, frame.self, "value")
        IN IF o.res.kind = "raise"
           THEN /\ exc' = o.res.exc
                /\ frame' = NoFrame
                /\ \A k \in 1..Len(out') : ~CallLine(out'[k])
                /\ Len(stack') >= Len(stack)
                /\ SubSeq(stack', 1, Len(stack)) = stack
                /\ stack[Len(stack)] = frame.desc
           ELSE /\ exc' = NoExc
                /\ frame' = [frame EXCEPT !.pc = "return",
                                          !.value = o.res.value]
                /\ stack' = stack
    /\ CallReturn =>
        /\ stack[Len(stack)] = frame.desc
        /\ stack' = Pop(stack)
        /\ \A k \in 1..Len(out) : ~CallLine(out[k])
        /\ out' = Append(out, ArrowLine(frame.desc, frame.value))
        /\ ret' = frame.value
        /\ frame' = NoFrame

\* C13, as amended: calling a wrapper while the session is Active with
\* arguments that fit the method's signature pushes the call description and
\* enters the function once, for the wrapper's instance, and the call then
\* completes as in (a) or (b); with arguments that do not fit, TypeError is
\* raised while the description is built: nothing is pushed, the function is
\* not entered and nothing is printed.
C13_WrappedCallPushesInvokesLogs ==
    [][Active =>
        /\ held.kind = "wrapper" =>
            /\ CallStmt("ok") =>
                /\ stack' = Append(stack, CallDesc(held.self, "get"))
                /\ frame' = LoggedCall(held.self)
                /\ exc' = NoExc
                /\ out' = <<>>
            /\ CallStmt("bad") =>
                /\ exc' = "TypeError"
                /\ frame' = NoFrame
                /\ stack' = stack
                /\ out' = <<>>
        /\ LoggedCallCompletes
      ]_vars

\* a logged call of b.get has returned: its line is the last one printed and
\* the value it handed back is b's value
C13_Witness ==
    /\ Active
    /\ BetweenStatements
    /\ held = Wrapper("b")
    /\ out # <<>>
    /\ out[Len(out)] = ArrowLine(CallDesc("b", "get"), Val(5))
    /\ ret = Val(5)

\* C13, as stated: every call of a wrapper while the session is Active,
\* whatever its arguments, pushes the call description and enters the
\* function once, and the call then completes as in (a) or (b).
C13_EveryWrappedCallPushesAndInvokes ==
    [][Active =>
        /\ held.kind = "wrapper" =>
            \A args \in {"ok", "bad"} :
                CallStmt(args) =>
                    /\ stack' = Append(stack, CallDesc(held.self, "get"))
                    /\ frame' = LoggedCall(held.self)
        /\ LoggedCallCompletes
      ]_vars

\* session i was entered and left inside the open scope of session o, both
\* on the same class
NestedOnSameClass(o, i) ==
    /\ o # i
    /\ sessions[o].target = sessions[i].target
    /\ scopes = <<o>>
    /\ sessions[i].state = "left"
    /\ sessions[i].depth = 1

\* session s prints a line for the operation
Prints(s, op) ==
    IF op = "get"
    THEN Installs(s, "__getattribute__") /\ sessions[s].attribute_access
    ELSE sessions[s].attribute_assignment

Range(q) == {q[k] : k \in 1..Len(q)}

\* C14, as amended: when a second session on the same class was entered and
\* left inside the scope of the first, the first session still intercepts:
\* every read and write it logs is still logged by it; and after an inner
\* exit that restored the handlers, the class's handlers are again the
\* wrappers the outer session installed (and, where it installed none, what
\* it found when it was entered).
C14_InnerExitReinstatesOuterHooks ==
    \A o, i \in SessionIds :
        NestedOnSameClass(o, i) =>
        LET c == sessions[o].target
        IN /\ sessions[i].done =>
                \A slot \in Slots :
                    Resolve(c, slot) = IF Installs(o, slot) THEN o
                                       ELSE sessions[o].original[slot]
           /\ \A op \in {"get", "set"} :
                Prints(o, op) =>
                    o \in Range(Logs(Resolve(c, SlotOf(op)), op))
           /\ (seen.class = c /\ Prints(o, seen.op)) => o \in Range(seen.by)

\* after the inner session was left normally, a read on an instance of the
\* class printed the outer session's line and no other
C14_Witness ==
    \E o, i \in SessionIds :
        /\ NestedOnSameClass(o, i)
        /\ sessions[i].done
        /\ Installs(i, "__getattribute__")
        /\ seen = [class |-> sessions[o].target, op |-> "get", by |-> <<o>>]

\* C14, as stated: after the inner exit the class's handlers are no longer
\* the outer session's wrappers and the outer session prints nothing more.
C14_InnerExitClobbersOuterHooks ==
    \A o, i \in SessionIds :
        (NestedOnSameClass(o, i) /\ \E slot \in Slots : Installs(o, slot)) =>
        LET c == sessions[o].target
        IN /\ \E slot \in Slots :
                Installs(o, slot) /\ Resolve(c, slot) # o
           /\ seen.class = c => o \notin Range(seen.by)

\* C15: with the two sessions on different classes (U a subclass of T or
\* not), no session puts a handler of its own on the other session's class,
\* and once both sessions have exited and restored, each class's read,
\* write and delete handlers resolve to object's, as before either session
\* started.
C15_SessionsOnDifferentClassesApart ==
    sessions[1].target # sessions[2].target =>
    /\ \A s, r \in SessionIds :
        s # r => \A slot \in Slots :
                    class_dict[sessions[r].target][slot] # s
    /\ (\A s \in SessionIds : sessions[s].done) =>
        \A c \in Classes, slot \in Slots : Resolve(c, slot) = ObjectHandler

\* the call lines among the lines q
CallLines(q) == {k \in 1..Len(q) : CallLine(q[k])}

\* C16: in the first scope of a session with function_calls enabled, a
\* method reference obtained before the scope was entered, when called,
\* pushes no call description, runs the function and prints no call line;
\* a reference to a method of an instance the session watches, obtained
\* inside the scope, prints exactly one call line for each call that
\* returns.
C16_CallsLoggedOnlyThroughReadsInScope ==
    [][(phase = "inside" /\ entered = 1 /\ function_calls
            /\ held.kind \in {"method", "wrapper"}) =>
        /\ ~captured_inside =>
            /\ CallStmt("ok") =>
                /\ stack' = stack
                /\ frame'.kind = "call"
                /\ ~frame'.logged
            /\ (frame.kind = "call" /\ CallReturn) =>
                /\ CallLines(out') = {}
                /\ stack' = stack
                /\ ret' = frame.value
        /\ (captured_inside /\ (instance = None \/ instance = held.self)
                /\ frame.kind = "call" /\ CallReturn) =>
            Cardinality(CallLines(out')) = 1
      ]_vars

\* C17: lines are printed when an intercepted operation completes, never
\* when it starts: while a call is in progress no call line has been
\* printed; the line of a call comes after the lines of the operations that
\* ran inside it (the read in the method's body); and a statement of the
\* block whose operation raised has printed no line.
C17_LinesPrintedAtCompletion ==
    phase = "inside" =>
    /\ frame.kind = "call" => CallLines(out) = {}
    /\ \A k \in CallLines(out) :
        /\ k = Len(out)
        /\ \A j \in 1..(k - 1) :
            AccessLine(out[j]) /\ out[j].desc.repr = out[k].desc.repr
    /\ exc # NoExc => out = <<>>

\* a logged call on the session's one instance has returned: the line of the
\* read in the body comes first, the line of the call second
C17_Witness ==
    /\ phase = "inside"
    /\ instance = "a"
    /\ BetweenStatements
    /\ out = <<ArrowLine(GetDesc("a", "value"), Val(0)),
               ArrowLine(CallDesc("a", "get"), Val(0))>>

====
